---- MODULE Spec2Model ----
(***************************************************************************)
(* Model of llmfoundry/callbacks/resumption_callbacks.py: the two          *)
(* callbacks GlobalLRScaling and LayerFreezing, each of which mutates the  *)
(* run state handed to its fit_start hook.                                 *)
(*                                                                         *)
(* Learning rates, weight decays and scale factors are floats in the       *)
(* source.  They are modelled as integers (exact multiples of a common     *)
(* unit): the properties checked here are about which value is multiplied  *)
(* by which factor and in which order, not about rounding.                 *)
(***************************************************************************)
EXTENDS Integers, Sequences, FiniteSets, TLC

VARIABLES
    has_optimizer_attr,  \* hasattr(state, 'optimizer')
    optimizers_is_none,  \* state.optimizers is None
    optimizers,          \* state.optimizers: sequence of optimizers, each its param_groups
    schedulers,          \* state.schedulers: sequence of base_lrs lists
    named_parameters,    \* state.model.named_parameters(): name -> requires_grad
    rate_log,            \* history: one record per GlobalLRScaling.fit_start call
    freeze_log           \* history: one record per LayerFreezing.fit_start call

vars == <<has_optimizer_attr, optimizers_is_none, optimizers, schedulers,
          named_parameters, rate_log, freeze_log>>

rate_vars == <<has_optimizer_attr, optimizers_is_none, optimizers, schedulers, rate_log>>

freeze_vars == <<named_parameters, freeze_log>>

----------------------------------------------------------------------------
(* Bounds of the model                                                     *)

\* total number of parameter groups over all optimizers of the run state
MaxGroups == 2

\* total number of base-rate entries over all schedulers of the run state
MaxBaseLrs == 2

\* number of GlobalLRScaling.fit_start invocations on one run state
MaxRateCalls == 2

\* number of names in a LayerFreezing's layer_names
MaxLayerNames == 2

\* number of LayerFreezing.fit_start invocations on one model
MaxFreezeCalls == 2

\* lr_scale values a GlobalLRScaling is constructed with
LrScales == {2, 3}

\* wd_pct values a GlobalLRScaling is constructed with (0 is the default)
WdPcts == {0, 2}

\* parameter groups an optimizer starts with: without 'initial_lr', with
\* 'initial_lr' equal to 'lr', and with 'initial_lr' different from 'lr'
GroupKinds ==
    { [lr |-> 1, weight_decay |-> 5],
      [lr |-> 2, weight_decay |-> 0, initial_lr |-> 2],
      [lr |-> 3, weight_decay |-> 5, initial_lr |-> 1] }

\* values of a scheduler's base_lrs entries
BaseRates == {1, 2}

\* names a model's parameters can have
ParamNames == {"a", "b", "c"}

\* names a LayerFreezing can be asked to freeze ("z" is in no model)
LayerNames == ParamNames \cup {"z"}

----------------------------------------------------------------------------
(* Helpers                                                                 *)

RECURSIVE SumLen(_)
SumLen(ss) == IF ss = <<>> THEN 0 ELSE Len(Head(ss)) + SumLen(Tail(ss))

\* non-empty sequences over S of length at most n
NonEmptySeqs(S, n) == UNION {[1..k -> S] : k \in 1..n}

\* sequences of non-empty sequences over S holding at most n entries in total
Collections(S, n) ==
    {c \in UNION {[1..m -> NonEmptySeqs(S, n)] : m \in 0..n} : SumLen(c) <= n}

\* every order in which the elements of the set S can be enumerated
Orders(S) ==
    {s \in [1..Cardinality(S) -> S] : \A i, j \in DOMAIN s : i # j => s[i] # s[j]}

RECURSIVE Product(_)
Product(s) == IF s = <<>> THEN 1 ELSE Head(s) * Product(Tail(s))

Last(s) == s[Len(s)]

----------------------------------------------------------------------------
(* GlobalLRScaling                                                         *)

\* GlobalLRScaling.__init__
GlobalLRScaling(lr_scale, wd_pct) == [lr_scale |-> lr_scale, wd_pct |-> wd_pct]

\* group[key] = value, adding the key when the group lacks it
SetItem(group, key, value) ==
    [k \in DOMAIN group \cup {key} |-> IF k = key THEN value ELSE group[k]]

\* mutant: weight decay taken from the rate before it is rescaled
ScaleGroupStaleRate(self, group) ==
    LET g1 == SetItem(group, "lr", group["lr"] * self.lr_scale)
        g2 == SetItem(g1, "weight_decay", group["lr"] * self.wd_pct)
    IN  IF "initial_lr" \in DOMAIN g2
        THEN SetItem(g2, "initial_lr", g2["initial_lr"] * self.lr_scale)
        ELSE g2

\* mutant: the rate is assigned the scale factor instead of multiplied by it
ScaleGroupAssign(self, group) ==
    LET g1 == SetItem(group, "lr", self.lr_scale)
        g2 == SetItem(g1, "weight_decay", g1["lr"] * self.wd_pct)
    IN  IF "initial_lr" \in DOMAIN g2
        THEN SetItem(g2, "initial_lr", g2["initial_lr"] * self.lr_scale)
        ELSE g2

\* mutant: 'initial_lr' defaults to the new rate when the group lacks it
ScaleGroupSetDefault(self, group) ==
    LET g1 == SetItem(group, "lr", group["lr"] * self.lr_scale)
        g2 == SetItem(g1, "weight_decay", g1["lr"] * self.wd_pct)
    IN  IF "initial_lr" \in DOMAIN g2
        THEN SetItem(g2, "initial_lr", g2["initial_lr"] * self.lr_scale)
        ELSE SetItem(g2, "initial_lr", g2["lr"])

\* the body of the loop over optimizer.param_groups
ScaleGroup(self, group) ==
    LET g1 == SetItem(group, "lr", group["lr"] * self.lr_scale)
        g2 == SetItem(g1, "weight_decay", g1["lr"] * self.wd_pct)
    IN  IF "initial_lr" \in DOMAIN g2
        THEN SetItem(g2, "initial_lr", g2["initial_lr"] * self.lr_scale)
        ELSE g2

\* the loops over state.optimizers and optimizer.param_groups
ScaleOptimizers(self, opts) ==
    [o \in DOMAIN opts |-> [g \in DOMAIN opts[o] |-> ScaleGroup(self, opts[o][g])]]

\* mutant: only the first base rate of a scheduler is rescaled
ScaleBaseLrsFirstOnly(self, base_lrs) ==
    [i \in DOMAIN base_lrs |->
        IF i = 1 THEN self.lr_scale * base_lrs[i] ELSE base_lrs[i]]

\* scheduler.base_lrs = [self.lr_scale * lr for lr in scheduler.base_lrs]
ScaleBaseLrs(self, base_lrs) ==
    [i \in DOMAIN base_lrs |-> self.lr_scale * base_lrs[i]]

\* the loop over state.schedulers
ScaleSchedulers(self, scheds) ==
    [s \in DOMAIN scheds |-> ScaleBaseLrs(self, scheds[s])]

\* the run state as the rate callback sees it
RateState(attr, is_none, opts, scheds) ==
    [has_optimizer_attr |-> attr, optimizers_is_none |-> is_none,
     optimizers |-> opts, schedulers |-> scheds]

\* mutant: a missing optimizer collection is skipped, the schedulers are still rescaled
GlobalLRScaling_fit_start_SkipNone(self, state) ==
    IF state.optimizers_is_none
    THEN [raised |-> "",
          state |-> [state EXCEPT !.schedulers = ScaleSchedulers(self, @)]]
    ELSE [raised |-> "",
          state |-> [state EXCEPT !.optimizers = ScaleOptimizers(self, @),
                                  !.schedulers = ScaleSchedulers(self, @)]]

\* GlobalLRScaling.fit_start: what it raises ("" when it returns) and the
\* run state it leaves
GlobalLRScaling_fit_start(self, state) ==
    IF state.has_optimizer_attr /\ state.optimizers_is_none
    THEN [raised |-> "Exception: No optimizers defined", state |-> state]
    ELSE IF state.optimizers_is_none
    THEN \* for optimizer in None
         [raised |-> "TypeError: 'NoneType' object is not iterable", state |-> state]
    ELSE [raised |-> "",
          state |-> [state EXCEPT !.optimizers = ScaleOptimizers(self, @),
                                  !.schedulers = ScaleSchedulers(self, @)]]

----------------------------------------------------------------------------
(* LayerFreezing                                                           *)

\* LayerFreezing.__init__: set(layer_names)
LayerFreezing(layer_names) == [layer_names |-> layer_names]

\* the validation loop over self.layer_names, traversed in layer_order: the
\* first name that is not in model_layers, "" when there is none
RECURSIVE FirstMissing(_, _)
FirstMissing(layer_order, model_layers) ==
    IF layer_order = <<>> THEN ""
    ELSE IF Head(layer_order) \notin model_layers THEN Head(layer_order)
    ELSE FirstMissing(Tail(layer_order), model_layers)

\* mutant: the loop stops at the first parameter it freezes
RECURSIVE FreezeLoopBreak(_, _, _, _)
FreezeLoopBreak(self, params, param_order, successful_freeze) ==
    IF param_order = <<>>
    THEN [params |-> params, successful_freeze |-> successful_freeze]
    ELSE LET name == Head(param_order) IN
         IF params[name] /\ name \in self.layer_names
         THEN [params |-> [params EXCEPT ![name] = FALSE], successful_freeze |-> TRUE]
         ELSE FreezeLoopBreak(self, params, Tail(param_order), successful_freeze)

\* mutant: every trainable parameter is frozen, named or not
RECURSIVE FreezeLoopAll(_, _, _, _)
FreezeLoopAll(self, params, param_order, successful_freeze) ==
    IF param_order = <<>>
    THEN [params |-> params, successful_freeze |-> successful_freeze]
    ELSE LET name == Head(param_order) IN
         IF params[name]
         THEN FreezeLoopAll(self, [params EXCEPT ![name] = FALSE],
                            Tail(param_order), TRUE)
         ELSE FreezeLoopAll(self, params, Tail(param_order), successful_freeze)

\* mutant: a named parameter counts as frozen by this call even when it
\* already was non-trainable
RECURSIVE FreezeLoopNoGradTest(_, _, _, _)
FreezeLoopNoGradTest(self, params, param_order, successful_freeze) ==
    IF param_order = <<>>
    THEN [params |-> params, successful_freeze |-> successful_freeze]
    ELSE LET name == Head(param_order) IN
         IF name \in self.layer_names
         THEN FreezeLoopNoGradTest(self, [params EXCEPT ![name] = FALSE],
                                   Tail(param_order), TRUE)
         ELSE FreezeLoopNoGradTest(self, params, Tail(param_order), successful_freeze)

\* mutant: successful_freeze is overwritten by every parameter visited
RECURSIVE FreezeLoopOverwrite(_, _, _, _)
FreezeLoopOverwrite(self, params, param_order, successful_freeze) ==
    IF param_order = <<>>
    THEN [params |-> params, successful_freeze |-> successful_freeze]
    ELSE LET name == Head(param_order) IN
         IF params[name] /\ name \in self.layer_names
         THEN FreezeLoopOverwrite(self, [params EXCEPT ![name] = FALSE],
                                  Tail(param_order), TRUE)
         ELSE FreezeLoopOverwrite(self, params, Tail(param_order), FALSE)

\* the mutation loop over state.model.named_parameters(), enumerated in param_order
RECURSIVE FreezeLoop(_, _, _, _)
FreezeLoop(self, params, param_order, successful_freeze) ==
    IF param_order = <<>>
    THEN [params |-> params, successful_freeze |-> successful_freeze]
    ELSE LET name == Head(param_order) IN
         IF params[name] /\ name \in self.layer_names
         THEN FreezeLoop(self, [params EXCEPT ![name] = FALSE],
                         Tail(param_order), TRUE)
         ELSE FreezeLoop(self, params, Tail(param_order), successful_freeze)

LookupError == "Exception: Attempted to freeze layer not found in model"

NoFreezeError == "Exception: Tried to run LayerFreezing but didn't freeze any layers"

\* mutant: the names are validated after the mutation loop has run
LayerFreezing_fit_start_LateValidation(self, layer_order, params, param_order) ==
    LET model_layers == DOMAIN params
        missing == FirstMissing(layer_order, model_layers)
        done == FreezeLoop(self, params, param_order, FALSE)
    IN  IF missing # ""
        THEN [raised |-> LookupError, layer |-> missing,
              available |-> model_layers, params |-> done.params]
        ELSE IF ~done.successful_freeze
        THEN [raised |-> NoFreezeError, layer |-> "", available |-> {},
              params |-> done.params]
        ELSE [raised |-> "", layer |-> "", available |-> {}, params |-> done.params]

\* LayerFreezing.fit_start: what it raises ("" when it returns), the layer
\* and the available layers its lookup error names, and the parameters'
\* requires_grad flags it leaves
LayerFreezing_fit_start(self, layer_order, params, param_order) ==
    LET model_layers == DOMAIN params
        missing == FirstMissing(layer_order, model_layers)
        done == FreezeLoop(self, params, param_order, FALSE)
    IN  IF missing # ""
        THEN [raised |-> LookupError, layer |-> missing,
              available |-> model_layers, params |-> params]
        ELSE IF ~done.successful_freeze
        THEN [raised |-> NoFreezeError, layer |-> "", available |-> {},
              params |-> done.params]
        ELSE [raised |-> "", layer |-> "", available |-> {}, params |-> done.params]

----------------------------------------------------------------------------
(* The state machine                                                       *)

\* run states handed to GlobalLRScaling.fit_start
InitRateState ==
    /\ optimizers_is_none \in BOOLEAN
    \* the attribute test only decides anything when the collection is None
    /\ has_optimizer_attr \in IF optimizers_is_none THEN BOOLEAN ELSE {TRUE}
    /\ optimizers \in IF optimizers_is_none THEN {<<>>}
                      ELSE Collections(GroupKinds, MaxGroups)
    /\ schedulers \in Collections(BaseRates, MaxBaseLrs)
    /\ rate_log = <<>>

\* models handed to LayerFreezing.fit_start
InitModel ==
    /\ named_parameters \in UNION {[names -> BOOLEAN] : names \in SUBSET ParamNames}
    /\ freeze_log = <<>>

\* one run state whose model has the three parameters, all trainable
FixedModel ==
    /\ named_parameters = [n \in ParamNames |-> TRUE]
    /\ freeze_log = <<>>

\* one run state with one optimizer of one group and one scheduler
FixedRateState ==
    /\ has_optimizer_attr = TRUE
    /\ optimizers_is_none = FALSE
    /\ optimizers = << << [lr |-> 1, weight_decay |-> 5] >> >>
    /\ schedulers = << <<1>> >>
    /\ rate_log = <<>>

InitRate == InitRateState /\ FixedModel

InitFreeze == FixedRateState /\ InitModel

\* the training loop dispatches fit_start to a GlobalLRScaling callback
RateFitStart ==
    /\ Len(rate_log) < MaxRateCalls
    /\ \E lr_scale \in LrScales, wd_pct \in WdPcts :
          LET self == GlobalLRScaling(lr_scale, wd_pct)
              before == RateState(has_optimizer_attr, optimizers_is_none,
                                  optimizers, schedulers)
              res == GlobalLRScaling_fit_start(self, before)
          IN  /\ optimizers' = res.state.optimizers
              /\ schedulers' = res.state.schedulers
              /\ optimizers_is_none' = res.state.optimizers_is_none
              /\ has_optimizer_attr' = res.state.has_optimizer_attr
              /\ rate_log' = Append(rate_log,
                    [self |-> self, raised |-> res.raised,
                     before |-> before, after |-> res.state])
    /\ UNCHANGED freeze_vars

\* the training loop dispatches fit_start to a LayerFreezing callback
FreezeFitStart ==
    /\ Len(freeze_log) < MaxFreezeCalls
    /\ \E layer_names \in SUBSET LayerNames :
          /\ Cardinality(layer_names) <= MaxLayerNames
          /\ \E layer_order \in Orders(layer_names),
                param_order \in Orders(DOMAIN named_parameters) :
                LET self == LayerFreezing(layer_names)
                    res == LayerFreezing_fit_start(self, layer_order,
                                                   named_parameters, param_order)
                IN  /\ named_parameters' = res.params
                    /\ freeze_log' = Append(freeze_log,
                          [self |-> self, raised |-> res.raised,
                           layer |-> res.layer, available |-> res.available,
                           before |-> named_parameters, after |-> res.params])
    /\ UNCHANGED rate_vars

\* GlobalLRScaling alone: it reads and writes only the optimizers and schedulers
SpecRate == InitRate /\ [][RateFitStart]_vars

\* LayerFreezing alone: it reads and writes only the model's parameters
SpecFreeze == InitFreeze /\ [][FreezeFitStart]_vars

----------------------------------------------------------------------------
(* Properties of GlobalLRScaling, checked under SpecRate                   *)

\* the run state the rate callback would be handed now
CurrentRateState ==
    RateState(has_optimizer_attr, optimizers_is_none, optimizers, schedulers)

\* the last logged call left the run state as it is now
RateLogIsCurrent ==
    rate_log # <<>> => Last(rate_log).after = CurrentRateState

\* the scale factors of the calls logged so far, in call order
ScalesApplied == [i \in DOMAIN rate_log |-> rate_log[i].self.lr_scale]

\* C1: after one fit_start with factors s and f on a state whose optimizer
\* collection is present, every group of every optimizer has
\* lr = r0 * s and weight_decay = r0 * s * f, r0 being the group's lr before
\* the call, whatever its weight_decay was before.
C1_RateAndDecay ==
    /\ RateLogIsCurrent
    /\ \A c \in DOMAIN rate_log :
          LET e == rate_log[c]
              s == e.self.lr_scale
              f == e.self.wd_pct
          IN  ~e.before.optimizers_is_none =>
                /\ e.raised = ""
                /\ DOMAIN e.after.optimizers = DOMAIN e.before.optimizers
                /\ \A o \in DOMAIN e.before.optimizers :
                      /\ DOMAIN e.after.optimizers[o] = DOMAIN e.before.optimizers[o]
                      /\ \A g \in DOMAIN e.before.optimizers[o] :
                            LET r0 == e.before.optimizers[o][g]["lr"] IN
                            /\ e.after.optimizers[o][g]["lr"] = r0 * s
                            /\ e.after.optimizers[o][g]["weight_decay"] = r0 * s * f

\* C1 witness: a call with f # 0 on two optimizers, one of whose groups had a
\* weight decay that is neither r0 * f nor the new value
C1_Witness ==
    \E c \in DOMAIN rate_log :
        LET e == rate_log[c] IN
        /\ e.raised = ""
        /\ e.self.wd_pct # 0
        /\ Len(e.before.optimizers) = 2
        /\ \E o \in DOMAIN e.before.optimizers : \E g \in DOMAIN e.before.optimizers[o] :
              LET b == e.before.optimizers[o][g] IN
              /\ b["weight_decay"] # b["lr"] * e.self.wd_pct
              /\ b["weight_decay"] # e.after.optimizers[o][g]["weight_decay"]
              /\ e.after.optimizers[o][g]["weight_decay"] =
                    e.after.optimizers[o][g]["lr"] * e.self.wd_pct

\* C5: when the optimizer collection is None, fit_start raises and leaves
\* every group's lr, weight_decay and initial_lr and every scheduler's
\* base_lrs as they were; it raises 'No optimizers defined' when the state
\* has the optimizer attribute.
C5_MissingOptimizersNoMutation ==
    /\ RateLogIsCurrent
    /\ \A c \in DOMAIN rate_log :
          LET e == rate_log[c] IN
          e.before.optimizers_is_none =>
            /\ e.raised # ""
            /\ e.after = e.before
            /\ e.before.has_optimizer_attr =>
                  e.raised = "Exception: No optimizers defined"

\* C5 witness: the call was made on a state with the attribute, no
\* optimizer collection and a scheduler whose base rates a rescaling would change
C5_Witness ==
    \E c \in DOMAIN rate_log :
        LET e == rate_log[c] IN
        /\ e.before.optimizers_is_none
        /\ e.before.has_optimizer_attr
        /\ e.raised = "Exception: No optimizers defined"
        /\ e.before.schedulers # <<>>
        /\ ScaleSchedulers(e.self, e.before.schedulers) # e.before.schedulers

\* C6: after one fit_start that returns, every scheduler's base_lrs
\* [b1..bn] is [b1*s..bn*s]: same length, same order, each entry scaled
\* once, whatever the number of optimizers and groups.
C6_BaseLrsScaled ==
    /\ RateLogIsCurrent
    /\ \A c \in DOMAIN rate_log :
          LET e == rate_log[c]
              s == e.self.lr_scale
          IN  e.raised = "" =>
                /\ Len(e.after.schedulers) = Len(e.before.schedulers)
                /\ \A k \in DOMAIN e.before.schedulers :
                      /\ Len(e.after.schedulers[k]) = Len(e.before.schedulers[k])
                      /\ \A i \in DOMAIN e.before.schedulers[k] :
                            e.after.schedulers[k][i] = e.before.schedulers[k][i] * s

\* C6 witness: a scheduler with two different base rates was rescaled on a
\* state that has no optimizer at all
C6_Witness ==
    \E c \in DOMAIN rate_log :
        LET e == rate_log[c] IN
        /\ e.raised = ""
        /\ e.before.optimizers = <<>>
        /\ \E k \in DOMAIN e.before.schedulers :
              /\ Len(e.before.schedulers[k]) = 2
              /\ e.before.schedulers[k][1] # e.before.schedulers[k][2]
              /\ e.after.schedulers[k][2] = e.before.schedulers[k][2] * e.self.lr_scale

\* C7: rescaling compounds: after n calls with factors s1..sn on a state
\* whose optimizer collection is present, every group's lr is
\* r0 * s1 * ... * sn, r0 being its lr before the first call.
C7_Compounds ==
    (rate_log # <<>> /\ ~rate_log[1].before.optimizers_is_none) =>
        LET first == rate_log[1].before.optimizers IN
        /\ DOMAIN optimizers = DOMAIN first
        /\ \A o \in DOMAIN first :
              /\ DOMAIN optimizers[o] = DOMAIN first[o]
              /\ \A g \in DOMAIN first[o] :
                    optimizers[o][g]["lr"] = first[o][g]["lr"] * Product(ScalesApplied)

\* C7 witness: two calls with different factors, after which a group's lr
\* is neither r0 * s1 nor r0 * s2
C7_Witness ==
    /\ Len(rate_log) = 2
    /\ rate_log[1].raised = ""
    /\ rate_log[1].self.lr_scale # rate_log[2].self.lr_scale
    /\ \E o \in DOMAIN optimizers : \E g \in DOMAIN optimizers[o] :
          LET r0 == rate_log[1].before.optimizers[o][g]["lr"] IN
          /\ optimizers[o][g]["lr"] # r0 * rate_log[1].self.lr_scale
          /\ optimizers[o][g]["lr"] # r0 * rate_log[2].self.lr_scale
          /\ optimizers[o][g]["lr"] =
                r0 * rate_log[1].self.lr_scale * rate_log[2].self.lr_scale

\* C9: fit_start multiplies a group's initial_lr by the scale factor exactly
\* when the group has the field and never adds it; so a scheduler base rate
\* i that equalled the initial_lr of group i before the call equals it after.
C9_InitialLrLockstep ==
    /\ RateLogIsCurrent
    /\ \A c \in DOMAIN rate_log :
          LET e == rate_log[c]
              s == e.self.lr_scale
          IN  e.raised = "" =>
                \A o \in DOMAIN e.before.optimizers :
                   \A g \in DOMAIN e.before.optimizers[o] :
                      LET b == e.before.optimizers[o][g]
                          a == e.after.optimizers[o][g]
                      IN  /\ ("initial_lr" \in DOMAIN a) <=> ("initial_lr" \in DOMAIN b)
                          /\ "initial_lr" \in DOMAIN b =>
                                /\ a["initial_lr"] = b["initial_lr"] * s
                                /\ \A k \in DOMAIN e.before.schedulers :
                                      (/\ g \in DOMAIN e.before.schedulers[k]
                                       /\ e.before.schedulers[k][g] = b["initial_lr"])
                                      => e.after.schedulers[k][g] = a["initial_lr"]

\* C9 witness: one call rescaled a group without initial_lr and a group
\* whose initial_lr was its scheduler's base rate
C9_Witness ==
    \E c \in DOMAIN rate_log :
        LET e == rate_log[c] IN
        /\ e.raised = ""
        /\ \E o \in DOMAIN e.before.optimizers : \E g \in DOMAIN e.before.optimizers[o] :
              /\ "initial_lr" \notin DOMAIN e.before.optimizers[o][g]
              /\ "initial_lr" \notin DOMAIN e.after.optimizers[o][g]
        /\ \E o \in DOMAIN e.before.optimizers : \E g \in DOMAIN e.before.optimizers[o] :
              /\ "initial_lr" \in DOMAIN e.before.optimizers[o][g]
              /\ \E k \in DOMAIN e.before.schedulers :
                    /\ g \in DOMAIN e.before.schedulers[k]
                    /\ e.before.schedulers[k][g] = e.before.optimizers[o][g]["initial_lr"]
                    /\ e.after.schedulers[k][g] # e.before.schedulers[k][g]

----------------------------------------------------------------------------
(* Properties of LayerFreezing, checked under SpecFreeze                   *)

\* the names of the parameters whose requires_grad is set
Trainable(params) == {n \in DOMAIN params : params[n]}

\* the last logged call left the model's parameters as they are now
FreezeLogIsCurrent ==
    freeze_log # <<>> => Last(freeze_log).after = named_parameters

\* C2: after a fit_start that returns without error, the trainable
\* parameters are those trainable before minus layer_names: every named
\* parameter is non-trainable, every other keeps its flag, none becomes
\* trainable.
C2_FreezesExactlyTheNamed ==
    /\ FreezeLogIsCurrent
    /\ \A c \in DOMAIN freeze_log :
          LET e == freeze_log[c] IN
          e.raised = "" =>
            /\ DOMAIN e.after = DOMAIN e.before
            /\ Trainable(e.after) = Trainable(e.before) \ e.self.layer_names
            /\ \A n \in DOMAIN e.before :
                  /\ n \in e.self.layer_names => ~e.after[n]
                  /\ n \notin e.self.layer_names => e.after[n] = e.before[n]
                  /\ ~e.before[n] => ~e.after[n]

\* C2 witness: a successful call that froze a named parameter, left a
\* trainable unnamed one trainable and a frozen unnamed one frozen
C2_Witness ==
    \E c \in DOMAIN freeze_log :
        LET e == freeze_log[c] IN
        /\ e.raised = ""
        /\ \E n \in e.self.layer_names : e.before[n] /\ ~e.after[n]
        /\ \E n \in DOMAIN e.before \ e.self.layer_names : e.before[n] /\ e.after[n]
        /\ \E n \in DOMAIN e.before \ e.self.layer_names : ~e.before[n] /\ ~e.after[n]

\* C3: when a name of layer_names is not a parameter name of the model,
\* fit_start raises the lookup error, which names a missing layer and lists
\* all the model's parameter names, and no requires_grad flag is changed.
C3_MissingNameNoMutation ==
    /\ FreezeLogIsCurrent
    /\ \A c \in DOMAIN freeze_log :
          LET e == freeze_log[c]
              absent == e.self.layer_names \ DOMAIN e.before
          IN  absent # {} =>
                /\ e.raised = LookupError
                /\ e.layer \in absent
                /\ e.available = DOMAIN e.before
                /\ e.after = e.before

\* C3 witness: the lookup error was raised by a call that also named a
\* trainable parameter of the model, which stayed trainable
C3_Witness ==
    \E c \in DOMAIN freeze_log :
        LET e == freeze_log[c] IN
        /\ e.raised = LookupError
        /\ e.available = {"a", "b", "c"}
        /\ \E n \in e.self.layer_names \cap DOMAIN e.before : e.before[n] /\ e.after[n]

\* C4: when every name of layer_names is a parameter name, fit_start
\* raises the 'no layers frozen' error exactly when no named parameter is
\* trainable at the call (so always for the empty set), and returns otherwise.
C4_NoFreezeErrorIff ==
    \A c \in DOMAIN freeze_log :
        LET e == freeze_log[c] IN
        e.self.layer_names \subseteq DOMAIN e.before =>
          /\ e.raised \in {"", NoFreezeError}
          /\ e.raised = NoFreezeError <=>
                (\A n \in e.self.layer_names : ~e.before[n])
          /\ e.self.layer_names = {} => e.raised = NoFreezeError

\* C4 witness: freezing the empty set failed, and a call naming one frozen
\* and one trainable parameter succeeded
C4_Witness ==
    /\ \E c \in DOMAIN freeze_log :
          /\ freeze_log[c].self.layer_names = {}
          /\ freeze_log[c].raised = NoFreezeError
    /\ \E c \in DOMAIN freeze_log :
          LET e == freeze_log[c] IN
          /\ e.raised = ""
          /\ \E n, m \in e.self.layer_names : ~e.before[n] /\ e.before[m]

\* C8: a second fit_start with the layer_names of a first one that
\* succeeded raises the 'no layers frozen' error and changes no flag: the
\* model is as the first call left it.
C8_SecondCallFails ==
    \A c \in DOMAIN freeze_log :
        (/\ c > 1
         /\ freeze_log[c - 1].raised = ""
         /\ freeze_log[c].self.layer_names = freeze_log[c - 1].self.layer_names)
        => /\ freeze_log[c].before = freeze_log[c - 1].after
           /\ freeze_log[c].raised = NoFreezeError
           /\ freeze_log[c].after = freeze_log[c - 1].after
           /\ (c = Len(freeze_log) => named_parameters = freeze_log[c - 1].after)

\* C8 witness: the same names were frozen twice in a row, the first call
\* succeeding
C8_Witness ==
    \E c \in DOMAIN freeze_log :
        /\ c > 1
        /\ freeze_log[c - 1].raised = ""
        /\ freeze_log[c].self.layer_names = freeze_log[c - 1].self.layer_names
        /\ freeze_log[c].raised = NoFreezeError

\* C10: the outcome of fit_start does not depend on iteration order:
\* whatever the order in which named_parameters() is enumerated and
\* layer_names is traversed, the call ends the same way (return, lookup
\* error, 'no layers frozen' error) with the same requires_grad flags.
C10_OrderIndependent ==
    /\ FreezeLogIsCurrent
    /\ \A c \in DOMAIN freeze_log :
          LET e == freeze_log[c] IN
          \A layer_order \in Orders(e.self.layer_names),
             param_order \in Orders(DOMAIN e.before) :
                LET r == LayerFreezing_fit_start(e.self, layer_order,
                                                 e.before, param_order)
                IN  r.raised = e.raised /\ r.params = e.after

\* C10 witness: a call naming two missing layers, where another traversal
\* order names the other layer in the same error; and a call that froze
\* two parameters
C10_Witness ==
    /\ \E c \in DOMAIN freeze_log :
          LET e == freeze_log[c] IN
          /\ e.raised = LookupError
          /\ \E layer_order \in Orders(e.self.layer_names),
                param_order \in Orders(DOMAIN e.before) :
                LayerFreezing_fit_start(e.self, layer_order,
                                        e.before, param_order).layer # e.layer
    /\ \E c \in DOMAIN freeze_log :
          LET e == freeze_log[c] IN
          /\ e.raised = ""
          /\ Cardinality(Trainable(e.before) \ Trainable(e.after)) = 2

====
